---------------------------- MODULE Spec2Model ----------------------------
(***************************************************************************)
(* BeaconConsensusEngineHandle (crates/consensus/beacon/src/engine/        *)
(* handle.rs): the request/response correlation protocol between callers   *)
(* holding clones of the handle and the single engine task that owns the   *)
(* receiving end of the mailbox.                                           *)
(*                                                                         *)
(* The handle's methods are translated from handle.rs.  The engine task    *)
(* and the OnForkChoiceUpdated future live in other files of the crate     *)
(* (engine/mod.rs, engine/message.rs); they are modelled from the written  *)
(* specification, as a nondeterministic consumer of the mailbox.           *)
(*                                                                         *)
(* Spec is the requests, their replies and the registration of event       *)
(* subscribers; FairSpec adds the fairness of the engine and of the        *)
(* executor.  EventSpec is Spec together with the event streams: the       *)
(* engine's sends to the subscribers and the subscribers' reads.           *)
(***************************************************************************)
EXTENDS Naturals, Sequences, FiniteSets

\* ------------------------------------------------------------- bounds
\* Calls are numbered in the order they are started; any number of them may
\* be pending at once, each made by a caller of its own through a clone of
\* the handle, or by a caller whose earlier call has returned.
MaxCalls == 2

CallIds == 1..MaxCalls

\* The most events the engine sends, or tries to send, to one subscriber
MaxEvents == 2

\* ------------------------------------------------------------- values
\* Every Result value is a record [tag, a, b] of strings.
Ok(a, b) == [tag |-> "Ok", a |-> a, b |-> b]
Err(a, b) == [tag |-> "Err", a |-> a, b |-> b]
NoVal == [tag |-> "NoVal", a |-> "-", b |-> "-"]
Unit == [tag |-> "Unit", a |-> "-", b |-> "-"]
\* oneshot::error::RecvError, what rx.await yields when tx was dropped unsent
RecvError == [tag |-> "RecvError", a |-> "-", b |-> "-"]

PayloadStatuses == {"VALID", "INVALID"}
PayloadIds == {"P1", "P2"}
\* Result<PayloadStatus, BeaconOnNewPayloadError> values the engine produces
NewPayloadReplies == {Ok(s, "-") : s \in PayloadStatuses} \cup {Err("Internal", "-")}
\* RethError values the engine answers phase 1 of a forkchoice update with
RethErrors == {Err("InvalidForkchoiceState", "-")}
\* the Ok side of RethResult<OnForkChoiceUpdated>: the token itself is tokens[ch]
OkToken == Ok("Token", "-")
\* Result<ForkchoiceUpdated, ForkchoiceUpdateError> of a resolved token
ForkchoiceResults ==
    {Ok("VALID", "None"), Err("UpdatedInvalidPayloadAttributes", "-")}
\* what a payload build job delivers on the token's channel
BuildResults == {Ok("VALID", p) : p \in PayloadIds}
\* the error of a token whose channel was closed without a value
Phase2Closed == Err("Phase2Closed", "-")

\* the b field of an EngineUnavailable names the error type it belongs to
NewPayloadEngineUnavailable == Err("EngineUnavailable", "BeaconOnNewPayloadError")
ForkChoiceEngineUnavailable == Err("EngineUnavailable", "BeaconForkChoiceUpdateError")

NoToken == [kind |-> "None", res |-> NoVal]
ReadyToken(r) == [kind |-> "Ready", res |-> r]
PendingToken == [kind |-> "Pending", res |-> NoVal]

VARIABLES
    engineAlive,   \* the mailbox's UnboundedReceiver is alive
    mailbox,       \* messages sent to to_engine and not yet received
    held,          \* reply-expecting messages the engine received and has not answered
    nextCall,      \* the number of the next call; the oneshot channel of call k is chans[k]
    chans,         \* oneshot channels: tx state, rx alive, value slot
    tokens,        \* the OnForkChoiceUpdated delivered on each channel
    chan2,         \* the channel inside a pending token: tx state, value slot
    pc,            \* each call's position: idle (not started), suspended, done, cancelled
    kind,          \* each call's operation
    attrs,         \* payload_attrs of a fork_choice_updated call
    result,        \* what each call returned
    wroteFor,      \* history: what the engine wrote in answer to each call's message
    subs,          \* the event channel each event_listener call created
    sends,         \* history: how many times each call invoked to_engine.send
    recvLog        \* history: the calls whose messages the engine took, in order

vars == <<engineAlive, mailbox, held, nextCall, chans, tokens, chan2,
          pc, kind, attrs, result, wroteFor, subs, sends, recvLog>>

callerVars == <<pc, kind, attrs, result>>
engineVars == <<held, tokens, chan2, wroteFor>>

\* ------------------------------------------------------ tokio channels
UnusedChan == [tx |-> "unused", rx |-> FALSE, val |-> NoVal]

\* A Sender is "alive", "sent" (used) or dropped unused; a dropped one keeps,
\* as history, who dropped it: "dropped:send_failed" (with the message the
\* handle could not send), "dropped:queued" (with a message still queued when
\* the mailbox went away), "dropped:engine" (by the engine task) and
\* "dropped:rx_gone" (a send that failed because the Receiver was gone).

\* oneshot::channel(): a fresh pair; the Sender travels in the message.  A
\* message whose send fails is returned inside the SendError and dropped by
\* `let _ =`, and its Sender with it.
TxAfterSend_Leaked(alive) == "alive"

TxAfterSend(alive) == IF alive THEN "alive" ELSE "dropped:send_failed"

FreshChan(alive) == [tx |-> TxAfterSend(alive), rx |-> TRUE, val |-> NoVal]

Send_Front(mb, alive, msg) == IF alive THEN <<msg>> \o mb ELSE mb

Send_Twice(mb, alive, msg) == IF alive THEN Append(Append(mb, msg), msg) ELSE mb

\* UnboundedSender::send: appends unless the receiver is gone
Send(mb, alive, msg) == IF alive THEN Append(mb, msg) ELSE mb

Resolved_NotByQueuedDrop(slot) ==
    slot.tx \notin {"unused", "alive", "dropped:queued"}

Resolved_OnlyByValue(slot) == slot.tx = "sent"

\* rx.await on a oneshot: enabled once the Sender is used or dropped
Resolved(slot) == slot.tx \notin {"unused", "alive"}
Recv(slot) == IF slot.tx = "sent" THEN slot.val ELSE RecvError

\* oneshot::Sender::send(v): fails, handing v back, when the Receiver is gone
OneshotSend(slot, v) ==
    IF slot.rx THEN [slot EXCEPT !.tx = "sent", !.val = v]
    ELSE [slot EXCEPT !.tx = "dropped:rx_gone"]

OneshotDropTx(slot, who) == [slot EXCEPT !.tx = who]

\* mpsc::unbounded_channel(): the sending half is "queued" while it travels
\* in the EventListener message, "registered" once the engine holds it, or
\* dropped.  q is the channel's buffer.  History: sent is what the engine put
\* into the channel, seen what the stream yielded, failed the number of sends
\* that failed.
UnusedSub ==
    [tx |-> "unused", rx |-> FALSE, q |-> <<>>, sent |-> <<>>, seen |-> <<>>,
     failed |-> 0]

SubTxAfterSend(alive) == IF alive THEN "queued" ELSE "dropped:send_failed"

FreshSub(alive) ==
    [tx |-> SubTxAfterSend(alive), rx |-> TRUE, q |-> <<>>, sent |-> <<>>,
     seen |-> <<>>, failed |-> 0]

\* UnboundedSender::send on the subscriber's channel: fails when the
\* receiving half is gone
MpscSend(sub, e) ==
    IF sub.rx THEN [sub EXCEPT !.q = Append(@, e), !.sent = Append(@, e)]
    ELSE [sub EXCEPT !.failed = @ + 1]

\* The events sent to one subscriber are numbered in the order of the sends
EventNo(sub) == Len(sub.sent) + sub.failed + 1

NewPayloadMsg_PreviousTx(ch) ==
    [type |-> "NewPayload", id |-> ch, tx |-> IF ch > 1 THEN ch - 1 ELSE ch,
     attrs |-> "-"]

\* ----------------------------------------------------------- messages
\* id is history: the call that built the message.  payload, cancun_fields
\* and state are opaque to the handle and moved into the message unread.
NewPayloadMsg_SharedTx(ch) ==
    [type |-> "NewPayload", id |-> ch, tx |-> 1, attrs |-> "-"]

NewPayloadMsg(ch) ==
    [type |-> "NewPayload", id |-> ch, tx |-> ch, attrs |-> "-"]

ForkchoiceUpdatedMsg_SharedTx(ch, payload_attrs) ==
    [type |-> "ForkchoiceUpdated", id |-> ch, tx |-> 1, attrs |-> payload_attrs]

ForkchoiceUpdatedMsg_AttrsForced(ch, payload_attrs) ==
    [type |-> "ForkchoiceUpdated", id |-> ch, tx |-> ch, attrs |-> "Some"]

ForkchoiceUpdatedMsg(ch, payload_attrs) ==
    [type |-> "ForkchoiceUpdated", id |-> ch, tx |-> ch, attrs |-> payload_attrs]

TransitionConfigurationExchangedMsg(c) ==
    [type |-> "TransitionConfigurationExchanged", id |-> c, tx |-> 0, attrs |-> "-"]

EventListenerMsg_FirstTx(c) ==
    [type |-> "EventListener", id |-> c, tx |-> 1, attrs |-> "-"]

\* EventListener(tx): tx is the sending half of the subscriber's channel
EventListenerMsg(c) ==
    [type |-> "EventListener", id |-> c, tx |-> c, attrs |-> "-"]

ExpectsReply(msg) == msg.type \in {"NewPayload", "ForkchoiceUpdated"}

PayloadAttrs == {"None", "Some"}

\* ------------------------------------------------- error conversions
\* impl From<RethError> for BeaconForkChoiceUpdateError
FromRethError(e) == Err("Internal", e.a)
\* BeaconForkChoiceUpdateError::ForkchoiceUpdateError(#[from] ForkchoiceUpdateError)
FromForkchoiceUpdateError(e) == Err("ForkchoiceUpdateError", e.a)

\* ------------------------------------------------------- the handle
\* The call started next takes the next number
CanCall(c) == c = nextCall /\ nextCall <= MaxCalls

NewPayloadOutcome_ErrFlattened(recv) ==
    IF recv = RecvError \/ recv.tag = "Err" THEN NewPayloadEngineUnavailable ELSE recv

NewPayloadOutcome_Internal(recv) ==
    IF recv = RecvError THEN Err("Internal", "-") ELSE recv

\* rx.await.map_err(|_| BeaconOnNewPayloadError::EngineUnavailable)?
NewPayloadOutcome(recv) ==
    IF recv = RecvError THEN NewPayloadEngineUnavailable ELSE recv

\* new_payload up to its await: the channel, the message, the send
NewPayloadCall(c) ==
    /\ CanCall(c)
    /\ chans' = [chans EXCEPT ![c] = FreshChan(engineAlive)]
    /\ mailbox' = Send(mailbox, engineAlive, NewPayloadMsg(c))
    /\ nextCall' = nextCall + 1
    /\ pc' = [pc EXCEPT ![c] = "np_await"]
    /\ kind' = [kind EXCEPT ![c] = "new_payload"]
    /\ attrs' = [attrs EXCEPT ![c] = "-"]
    /\ result' = [result EXCEPT ![c] = NoVal]
    /\ sends' = [sends EXCEPT ![c] = @ + 1]
    /\ UNCHANGED <<subs, recvLog, engineAlive, engineVars>>

\* new_payload resumed by its oneshot receiver
NewPayloadResolve(c) ==
    /\ pc[c] = "np_await"
    /\ Resolved(chans[c])
    /\ result' = [result EXCEPT ![c] = NewPayloadOutcome(Recv(chans[c]))]
    /\ pc' = [pc EXCEPT ![c] = "done"]
    /\ UNCHANGED <<subs, sends, recvLog, engineAlive, mailbox, nextCall, chans,
                   kind, attrs, engineVars>>

\* send_fork_choice_updated, run by the first poll of fork_choice_updated
ForkChoiceUpdatedCall(c, payload_attrs) ==
    /\ CanCall(c)
    /\ chans' = [chans EXCEPT ![c] = FreshChan(engineAlive)]
    /\ mailbox' = Send(mailbox, engineAlive, ForkchoiceUpdatedMsg(c, payload_attrs))
    /\ nextCall' = nextCall + 1
    /\ pc' = [pc EXCEPT ![c] = "fcu_await1"]
    /\ kind' = [kind EXCEPT ![c] = "fork_choice_updated"]
    /\ attrs' = [attrs EXCEPT ![c] = payload_attrs]
    /\ result' = [result EXCEPT ![c] = NoVal]
    /\ sends' = [sends EXCEPT ![c] = @ + 1]
    /\ UNCHANGED <<subs, recvLog, engineAlive, engineVars>>

\* OnForkChoiceUpdated as a future: ready at once, or when its channel is
TokenReady(ch) ==
    \/ tokens[ch].kind = "Ready"
    \/ tokens[ch].kind = "Pending" /\ Resolved(chan2[ch])

TokenOutput(ch) ==
    IF tokens[ch].kind = "Ready" THEN tokens[ch].res
    ELSE IF Recv(chan2[ch]) = RecvError THEN Phase2Closed
    ELSE Recv(chan2[ch])

\* One poll of the token: NoVal stands for Poll::Pending
PollToken(ch) == IF TokenReady(ch) THEN TokenOutput(ch) ELSE NoVal

Phase1Outcome_ErrFlattened(recv) ==
    IF recv = RecvError \/ recv.tag = "Err" THEN ForkChoiceEngineUnavailable
    ELSE NoVal

Phase1Outcome_SingleTry(recv) ==
    IF recv = RecvError THEN ForkChoiceEngineUnavailable ELSE NoVal

\* .map_err(|_| EngineUnavailable).await??: the two `?` after the first await.
\* NoVal: neither `?` returned, the token is awaited next.
Phase1Outcome(recv) ==
    IF recv = RecvError THEN ForkChoiceEngineUnavailable
    ELSE IF recv.tag = "Err" THEN FromRethError(recv)
    ELSE NoVal

Phase2Outcome_ErrSwallowed(out) ==
    IF out.tag = "Err" THEN Ok("VALID", "None") ELSE out

\* Ok(out?) for the token's output
Phase2Outcome(out) ==
    IF out.tag = "Err" THEN FromForkchoiceUpdateError(out) ELSE out

AwaitToken_NotAwaited(poll) ==
    IF poll = NoVal THEN Ok("VALID", "None") ELSE Phase2Outcome(poll)

\* Ok(token.await?): the call's result, or NoVal while the token is pending
\* and the call stays suspended
AwaitToken(poll) == IF poll = NoVal THEN NoVal ELSE Phase2Outcome(poll)

\* fork_choice_updated resumed by the phase-1 receiver; the same poll polls
\* the token, and suspends again only if the token is not ready
ForkChoiceUpdatedPhase1(c) ==
    LET recv == Recv(chans[c])
        out == IF Phase1Outcome(recv) # NoVal THEN Phase1Outcome(recv)
               ELSE AwaitToken(PollToken(c))
    IN  /\ pc[c] = "fcu_await1"
        /\ Resolved(chans[c])
        /\ result' = [result EXCEPT ![c] = out]
        /\ pc' = [pc EXCEPT ![c] = IF out = NoVal THEN "fcu_await2" ELSE "done"]
        /\ UNCHANGED <<subs, sends, recvLog, engineAlive, mailbox, nextCall,
                       chans, kind, attrs, engineVars>>

\* fork_choice_updated resumed by the token
ForkChoiceUpdatedPhase2(c) ==
    /\ pc[c] = "fcu_await2"
    /\ AwaitToken(PollToken(c)) # NoVal
    /\ result' = [result EXCEPT ![c] = AwaitToken(PollToken(c))]
    /\ pc' = [pc EXCEPT ![c] = "done"]
    /\ UNCHANGED <<subs, sends, recvLog, engineAlive, mailbox, nextCall, chans,
                   kind, attrs, engineVars>>

TransitionConfigurationResult_Propagated(alive) ==
    IF alive THEN Unit ELSE Err("EngineUnavailable", "-")

\* What transition_configuration_exchanged returns: the send's result is
\* discarded by `let _ =`
TransitionConfigurationResult(alive) == Unit

TransitionConfigurationExchanged(c) ==
    /\ CanCall(c)
    /\ mailbox' = Send(mailbox, engineAlive, TransitionConfigurationExchangedMsg(c))
    /\ nextCall' = nextCall + 1
    /\ pc' = [pc EXCEPT ![c] = "done"]
    /\ kind' = [kind EXCEPT ![c] = "transition_configuration_exchanged"]
    /\ attrs' = [attrs EXCEPT ![c] = "-"]
    /\ result' = [result EXCEPT ![c] = TransitionConfigurationResult(engineAlive)]
    /\ sends' = [sends EXCEPT ![c] = @ + 1]
    /\ UNCHANGED <<subs, recvLog, engineAlive, chans, engineVars>>

\* The value event_listener returns: UnboundedReceiverStream::new(rx),
\* whatever the send did
StreamValue == [tag |-> "Stream", a |-> "-", b |-> "-"]

EventListenerResult_Propagated(alive) ==
    IF alive THEN StreamValue ELSE Err("EngineUnavailable", "-")

EventListenerResult(alive) == StreamValue

\* event_listener: the channel, the message, the send; it returns at once
EventListener(c) ==
    /\ CanCall(c)
    /\ subs' = [subs EXCEPT ![c] = FreshSub(engineAlive)]
    /\ mailbox' = Send(mailbox, engineAlive, EventListenerMsg(c))
    /\ sends' = [sends EXCEPT ![c] = @ + 1]
    /\ nextCall' = nextCall + 1
    /\ pc' = [pc EXCEPT ![c] = "done"]
    /\ kind' = [kind EXCEPT ![c] = "event_listener"]
    /\ attrs' = [attrs EXCEPT ![c] = "-"]
    /\ result' = [result EXCEPT ![c] = EventListenerResult(engineAlive)]
    /\ UNCHANGED <<engineAlive, chans, engineVars, recvLog>>

StreamItem_Newest(q) == q[Len(q)]

\* What the stream yields next: the oldest buffered event
StreamItem(q) == Head(q)

\* The subscriber polls the stream and an event is ready
StreamNext(c) ==
    /\ subs[c].rx
    /\ subs[c].q # <<>>
    /\ subs' = [subs EXCEPT ![c] = [@ EXCEPT !.seen = Append(@, StreamItem(subs[c].q)),
                                            !.q = Tail(@)]]
    /\ UNCHANGED <<engineAlive, mailbox, nextCall, chans, callerVars, engineVars,
                   sends, recvLog>>

\* The stream has ended: nothing is buffered and no sender is left
StreamEnded(sub) ==
    sub.rx /\ sub.q = <<>> /\ sub.tx \notin {"unused", "queued", "registered"}

\* The subscriber drops the stream, and what is buffered with it
StreamDrop(c) ==
    /\ subs[c].rx
    /\ subs' = [subs EXCEPT ![c] = [@ EXCEPT !.rx = FALSE, !.q = <<>>]]
    /\ UNCHANGED <<engineAlive, mailbox, nextCall, chans, callerVars, engineVars,
                   sends, recvLog>>

CallerDrop_Notifies(c) ==
    /\ pc[c] \in {"np_await", "fcu_await1", "fcu_await2"}
    /\ pc' = [pc EXCEPT ![c] = "cancelled"]
    /\ chans' = [chans EXCEPT ![c].rx = FALSE]
    /\ chan2' = [chan2 EXCEPT ![c].rx = FALSE]
    /\ mailbox' = Send(mailbox, engineAlive, TransitionConfigurationExchangedMsg(c))
    /\ UNCHANGED <<subs, sends, recvLog, engineAlive, held, nextCall, tokens, kind,
                   attrs, result, wroteFor>>

\* The caller drops the pending future: its receivers go with it
CallerDrop(c) ==
    /\ pc[c] \in {"np_await", "fcu_await1", "fcu_await2"}
    /\ pc' = [pc EXCEPT ![c] = "cancelled"]
    /\ chans' = [chans EXCEPT ![c].rx = FALSE]
    /\ chan2' = [chan2 EXCEPT ![c].rx = FALSE]
    /\ UNCHANGED <<subs, sends, recvLog, engineAlive, mailbox, held, nextCall, tokens,
                   kind, attrs, result, wroteFor>>

\* --------------------------------------------------- the engine task
\* The consumer of the mailbox.  It takes messages in order, and answers or
\* drops each reply channel it holds, in any order.

EngineRecv ==
    /\ engineAlive
    /\ mailbox # <<>>
    /\ mailbox' = Tail(mailbox)
    /\ held' = IF ExpectsReply(Head(mailbox)) THEN held \cup {Head(mailbox)} ELSE held
    /\ subs' = IF Head(mailbox).type = "EventListener"
               THEN [subs EXCEPT ![Head(mailbox).tx].tx = "registered"]
               ELSE subs
    /\ recvLog' = Append(recvLog, Head(mailbox).id)
    /\ UNCHANGED <<sends, engineAlive, nextCall, chans, tokens, chan2,
                   callerVars, wroteFor>>

EngineReplyNewPayload(m, v) ==
    /\ m \in held
    /\ m.type = "NewPayload"
    /\ chans' = [chans EXCEPT ![m.tx] = OneshotSend(@, v)]
    /\ held' = held \ {m}
    /\ wroteFor' = [wroteFor EXCEPT ![m.id] = v]
    /\ UNCHANGED <<subs, sends, recvLog, engineAlive, mailbox, nextCall, tokens,
                   chan2, callerVars>>

\* The token the engine may answer a forkchoice update with: one that is
\* ready at once, or, only when a payload build was asked for, a pending one
TokensFor(payload_attrs) ==
    {ReadyToken(r) : r \in ForkchoiceResults}
        \cup (IF payload_attrs = "Some" THEN {PendingToken} ELSE {})

EngineReplyForkchoiceError(m, e) ==
    /\ m \in held
    /\ m.type = "ForkchoiceUpdated"
    /\ chans' = [chans EXCEPT ![m.tx] = OneshotSend(@, e)]
    /\ held' = held \ {m}
    /\ wroteFor' = [wroteFor EXCEPT ![m.id] = e]
    /\ UNCHANGED <<subs, sends, recvLog, engineAlive, mailbox, nextCall, tokens,
                   chan2, callerVars>>

\* Ok(token): a pending token carries the receiver of a fresh channel whose
\* sender the build job keeps
EngineReplyForkchoiceToken(m, t) ==
    /\ m \in held
    /\ m.type = "ForkchoiceUpdated"
    /\ t \in TokensFor(m.attrs)
    /\ chans' = [chans EXCEPT ![m.tx] = OneshotSend(@, OkToken)]
    /\ tokens' = [tokens EXCEPT ![m.tx] = t]
    /\ chan2' = [chan2 EXCEPT ![m.tx] =
                    IF t.kind = "Pending"
                    THEN [tx |-> "alive", rx |-> chans[m.tx].rx, val |-> NoVal]
                    ELSE @]
    /\ held' = held \ {m}
    /\ wroteFor' = [wroteFor EXCEPT ![m.id] = OkToken]
    /\ UNCHANGED <<subs, sends, recvLog, engineAlive, mailbox, nextCall, callerVars>>

\* The engine drops a message it holds without answering it
EngineDropReply(m) ==
    /\ m \in held
    /\ chans' = [chans EXCEPT ![m.tx] = OneshotDropTx(@, "dropped:engine")]
    /\ held' = held \ {m}
    /\ UNCHANGED <<subs, sends, recvLog, engineAlive, mailbox, nextCall, tokens,
                   chan2, callerVars, wroteFor>>

\* The build job delivers on the token's channel
EngineResolveBuild(ch, r) ==
    /\ chan2[ch].tx = "alive"
    /\ chan2' = [chan2 EXCEPT ![ch] = OneshotSend(@, r)]
    /\ UNCHANGED <<subs, sends, recvLog, engineAlive, mailbox, held, nextCall,
                   chans, tokens, callerVars, wroteFor>>

\* The build job goes away without delivering
EngineDropBuild(ch) ==
    /\ chan2[ch].tx = "alive"
    /\ chan2' = [chan2 EXCEPT ![ch] = OneshotDropTx(@, "dropped:engine")]
    /\ UNCHANGED <<subs, sends, recvLog, engineAlive, mailbox, held, nextCall,
                   chans, tokens, callerVars, wroteFor>>

\* The engine emits an event to a subscriber it has registered; a failed
\* send changes nothing else
EngineSendEvent(ch) ==
    /\ engineAlive
    /\ subs[ch].tx = "registered"
    /\ EventNo(subs[ch]) <= MaxEvents
    /\ subs' = [subs EXCEPT ![ch] = MpscSend(@, EventNo(subs[ch]))]
    /\ UNCHANGED <<engineAlive, mailbox, nextCall, chans, callerVars, engineVars,
                   sends, recvLog>>

\* The engine removes a subscriber from its registry
EngineDropSubscriber(ch) ==
    /\ subs[ch].tx = "registered"
    /\ subs' = [subs EXCEPT ![ch].tx = "dropped:engine"]
    /\ UNCHANGED <<engineAlive, mailbox, nextCall, chans, callerVars, engineVars,
                   sends, recvLog>>

\* The subscriber channels whose senders sit in messages still queued
QueuedSubscribers(mb) ==
    {mb[i].tx : i \in {j \in 1..Len(mb) : mb[j].type = "EventListener"}}

\* The channels whose senders sit in messages still queued
QueuedTx(mb) == {mb[i].tx : i \in {j \in 1..Len(mb) : ExpectsReply(mb[j])}}

\* The engine drops the mailbox's receiver: the queued messages are dropped
EngineStop ==
    /\ engineAlive
    /\ engineAlive' = FALSE
    /\ chans' = [ch \in CallIds |->
                    IF ch \in QueuedTx(mailbox) THEN OneshotDropTx(chans[ch], "dropped:queued")
                    ELSE chans[ch]]
    /\ mailbox' = <<>>
    /\ subs' = [ch \in CallIds |->
                   IF ch \in QueuedSubscribers(mailbox)
                   THEN [subs[ch] EXCEPT !.tx = "dropped:queued"]
                   ELSE subs[ch]]
    /\ UNCHANGED <<sends, recvLog, held, nextCall, tokens, chan2, callerVars, wroteFor>>

\* ------------------------------------------------------ specification
Init ==
    /\ engineAlive = TRUE
    /\ mailbox = <<>>
    /\ held = {}
    /\ nextCall = 1
    /\ chans = [ch \in CallIds |-> UnusedChan]
    /\ tokens = [ch \in CallIds |-> NoToken]
    /\ chan2 = [ch \in CallIds |-> UnusedChan]
    /\ pc = [c \in CallIds |-> "idle"]
    /\ kind = [c \in CallIds |-> "-"]
    /\ attrs = [c \in CallIds |-> "-"]
    /\ result = [c \in CallIds |-> NoVal]
    /\ wroteFor = [ch \in CallIds |-> NoVal]
    /\ subs = [ch \in CallIds |-> UnusedSub]
    /\ sends = [c \in CallIds |-> 0]
    /\ recvLog = <<>>

HandleStep ==
    \/ \E c \in CallIds : NewPayloadCall(c)
    \/ \E c \in CallIds : NewPayloadResolve(c)
    \/ \E c \in CallIds, a \in PayloadAttrs : ForkChoiceUpdatedCall(c, a)
    \/ \E c \in CallIds : ForkChoiceUpdatedPhase1(c)
    \/ \E c \in CallIds : ForkChoiceUpdatedPhase2(c)
    \/ \E c \in CallIds : TransitionConfigurationExchanged(c)
    \/ \E c \in CallIds : CallerDrop(c)
    \/ \E c \in CallIds : EventListener(c)

EngineStep ==
    \/ EngineRecv
    \/ \E m \in held, v \in NewPayloadReplies : EngineReplyNewPayload(m, v)
    \/ \E m \in held, e \in RethErrors : EngineReplyForkchoiceError(m, e)
    \/ \E m \in held, t \in TokensFor("Some") : EngineReplyForkchoiceToken(m, t)
    \/ \E m \in held : EngineDropReply(m)
    \/ \E ch \in CallIds, r \in BuildResults : EngineResolveBuild(ch, r)
    \/ \E ch \in CallIds : EngineDropBuild(ch)

\* The requests, their replies and the registration of subscribers
Next == HandleStep \/ EngineStep \/ EngineStop

Spec == Init /\ [][Next]_vars

\* The event streams: what the engine and the subscribers do with the
\* channels that event_listener created
EventStep ==
    \/ \E ch \in CallIds : EngineSendEvent(ch)
    \/ \E ch \in CallIds : EngineDropSubscriber(ch)
    \/ \E c \in CallIds : StreamNext(c)
    \/ \E c \in CallIds : StreamDrop(c)

EventNext == Next \/ EventStep

EventSpec == Init /\ [][EventNext]_vars

\* The engine's side of the contract: it takes what is queued while it owns
\* the mailbox, and writes to or drops every reply channel and every token
\* channel it holds.
EngineAnswers ==
    \/ \E m \in held, v \in NewPayloadReplies : EngineReplyNewPayload(m, v)
    \/ \E m \in held, e \in RethErrors : EngineReplyForkchoiceError(m, e)
    \/ \E m \in held, t \in TokensFor("Some") : EngineReplyForkchoiceToken(m, t)
    \/ \E m \in held : EngineDropReply(m)

EngineBuilds ==
    \/ \E ch \in CallIds, r \in BuildResults : EngineResolveBuild(ch, r)
    \/ \E ch \in CallIds : EngineDropBuild(ch)

EngineFairness ==
    /\ WF_vars(EngineRecv)
    /\ WF_vars(EngineAnswers)
    /\ WF_vars(EngineBuilds)

\* The executor polls a call whose receiver has woken it
Resume(c) ==
    NewPayloadResolve(c) \/ ForkChoiceUpdatedPhase1(c) \/ ForkChoiceUpdatedPhase2(c)

CallerFairness == \A c \in CallIds : WF_vars(Resume(c))

FairSpec == Spec /\ EngineFairness /\ CallerFairness

\* ------------------------------------------------------------- claims
IsCall(c, k) == kind[c] = k /\ pc[c] # "idle"
Done(c, k) == kind[c] = k /\ pc[c] = "done"
Pending(c) == pc[c] \in {"np_await", "fcu_await1", "fcu_await2"}
Slot(c) == chans[c]
Slot2(c) == chan2[c]
\* The step in which call c is started
Starts(c) == pc[c] = "idle" /\ pc'[c] # "idle"

\* C1: a new_payload call whose reply channel the engine wrote V into
\* returns exactly V, and V is not EngineUnavailable.
C1_NewPayloadReturnsReply ==
    \A c \in CallIds :
        (Done(c, "new_payload") /\ Slot(c).tx = "sent")
            => /\ result[c] = Slot(c).val
               /\ result[c] \in NewPayloadReplies
               /\ result[c].a # "EngineUnavailable"

C1_Witness ==
    \E c \in CallIds :
        /\ Done(c, "new_payload")
        /\ Slot(c).tx = "sent"
        /\ result[c] = Err("Internal", "-")

\* C2: the message of each call carries the sender of that call's own
\* channel, and each concurrent new_payload caller returns what the engine
\* wrote in answer to its own message, whatever the
\* order of the answers.
C2_OwnReplyOnly ==
    \A c \in CallIds :
        /\ \A m \in held \cup {mailbox[i] : i \in 1..Len(mailbox)} :
               (m.id = c /\ ExpectsReply(m)) => m.tx = c
        /\ (Done(c, "new_payload") /\ result[c] # NewPayloadEngineUnavailable)
               => result[c] = wroteFor[c]
        /\ (IsCall(c, "new_payload") /\ wroteFor[c] # NoVal /\ Slot(c).rx)
               => Slot(c).val = wroteFor[c]

\* the later caller has its own answer while the earlier caller's message is
\* still held unanswered
C2_Witness ==
    \E c, d \in CallIds :
        /\ c < d
        /\ pc[c] = "np_await" /\ kind[c] = "new_payload"
        /\ \E m \in held : m.id = c
        /\ Done(d, "new_payload")
        /\ wroteFor[d] # NoVal
        /\ result[d] = wroteFor[d]

\* C3: a call whose message the engine received and whose reply channel it
\* dropped unanswered returns the EngineUnavailable of its own error type.
C3_DroppedReplyIsEngineUnavailable ==
    \A c \in CallIds :
        /\ (Done(c, "new_payload") /\ Slot(c).tx = "dropped:engine")
               => result[c] = Err("EngineUnavailable", "BeaconOnNewPayloadError")
        /\ (Done(c, "fork_choice_updated") /\ Slot(c).tx = "dropped:engine")
               => result[c] = Err("EngineUnavailable", "BeaconForkChoiceUpdateError")

C3_Witness ==
    \E c, d \in CallIds :
        /\ Done(c, "new_payload") /\ Slot(c).tx = "dropped:engine"
        /\ Done(d, "fork_choice_updated") /\ Slot(d).tx = "dropped:engine"

C4_ClosedInv ==
    \A c \in CallIds :
        /\ (Done(c, "new_payload") /\ Slot(c).tx = "dropped:send_failed")
               => result[c] = Err("EngineUnavailable", "BeaconOnNewPayloadError")
        /\ (Done(c, "fork_choice_updated") /\ Slot(c).tx = "dropped:send_failed")
               => result[c] = Err("EngineUnavailable", "BeaconForkChoiceUpdateError")

C4_ClosedStep ==
    \A c \in CallIds :
        (~engineAlive /\ Starts(c) /\ kind'[c] \in {"new_payload", "fork_choice_updated"})
            => /\ Resolved(chans'[c])
               /\ chans'[c].val = NoVal
               /\ mailbox' = mailbox

\* C4: a new_payload or fork_choice_updated call made when the mailbox is
\* closed leaves nothing in the mailbox and has its reply channel closed at
\* once, so it is resumable, and it returns EngineUnavailable.
C4_ClosedMailboxIsEngineUnavailable == []C4_ClosedInv /\ [][C4_ClosedStep]_vars

C4_Witness ==
    \E c, d \in CallIds :
        /\ Done(c, "new_payload") /\ Slot(c).tx = "dropped:send_failed"
        /\ result[c] = Err("EngineUnavailable", "BeaconOnNewPayloadError")
        /\ Done(d, "fork_choice_updated") /\ Slot(d).tx = "dropped:send_failed"
        /\ result[d] = Err("EngineUnavailable", "BeaconForkChoiceUpdateError")

\* Phase 1 of c's fork_choice_updated was answered with a pending token
DeferredPhase1(c) ==
    /\ IsCall(c, "fork_choice_updated")
    /\ Slot(c).tx = "sent"
    /\ Slot(c).val = OkToken
    /\ tokens[c].kind = "Pending"

\* C5: after a pending token whose channel was closed without a value the
\* call fails with the phase-2 error, which is not EngineUnavailable, and
\* never succeeds.
C5_Phase2ClosedError ==
    \A c \in CallIds :
        (DeferredPhase1(c) /\ pc[c] = "done" /\ Slot2(c).tx = "dropped:engine")
            => /\ result[c] = Err("ForkchoiceUpdateError", "Phase2Closed")
               /\ result[c].a # "EngineUnavailable"
               /\ result[c].tag # "Ok"

C5_Witness ==
    \E c \in CallIds :
        /\ DeferredPhase1(c) /\ pc[c] = "done" /\ Slot2(c).tx = "dropped:engine"
        /\ result[c] = Err("ForkchoiceUpdateError", "Phase2Closed")

\* C6: with payload attributes and a pending token the call has not
\* returned Ok while the token's channel is unresolved, and once that channel
\* delivered R the call returns exactly Ok(R).
C6_Phase2Awaited ==
    \A c \in CallIds :
        (DeferredPhase1(c) /\ attrs[c] = "Some")
            => /\ Slot2(c).tx = "alive" => ~(pc[c] = "done" /\ result[c].tag = "Ok")
               /\ (pc[c] = "done" /\ Slot2(c).tx = "sent")
                      => (result[c] = Slot2(c).val /\ result[c] \in BuildResults)

C6_Witness ==
    \E c \in CallIds :
        /\ DeferredPhase1(c) /\ attrs[c] = "Some"
        /\ pc[c] = "done" /\ Slot2(c).tx = "sent"
        /\ result[c] = Ok("VALID", "P2")

\* C7: a domain error in answer to phase 1 is returned, converted, by the
\* poll that reads it: the call is never suspended on phase 2.
C7_Phase1ErrorImmediate ==
    \A c \in CallIds :
        (IsCall(c, "fork_choice_updated") /\ Slot(c).tx = "sent" /\ Slot(c).val.tag = "Err")
            => /\ pc[c] # "fcu_await2"
               /\ pc[c] = "done" => result[c] = Err("Internal", Slot(c).val.a)
               /\ pc[c] = "fcu_await1" => ENABLED ForkChoiceUpdatedPhase1(c)

C7_Witness ==
    \E c \in CallIds :
        /\ IsCall(c, "fork_choice_updated") /\ Slot(c).tx = "sent"
        /\ Slot(c).val = Err("InvalidForkchoiceState", "-")
        /\ pc[c] = "done"
        /\ result[c] = Err("Internal", "InvalidForkchoiceState")
        /\ tokens[c].kind = "None"

C9_DefiniteResult ==
    \A c \in CallIds :
        (pc[c] = "done" /\ kind[c] \in {"new_payload", "fork_choice_updated"})
            => result[c].tag \in {"Ok", "Err"}

C9_Resolves == \A c \in CallIds : Pending(c) ~> pc[c] \in {"done", "cancelled"}

\* C9: when the engine answers or drops every channel it holds, every
\* new_payload and fork_choice_updated call that is not dropped by its caller
\* returns, and what it returns is an Ok or a typed Err.
C9_NeverLeftPending == []C9_DefiniteResult /\ C9_Resolves

\* a call that went through both suspension points, and one that went
\* through one, have returned
C9_Witness ==
    \E c, d \in CallIds :
        /\ DeferredPhase1(c) /\ pc[c] = "done" /\ result[c].tag = "Ok"
        /\ Done(d, "new_payload") /\ result[d].tag = "Err"

C10_AlwaysUnit ==
    \A c \in CallIds :
        IsCall(c, "transition_configuration_exchanged")
            => (pc[c] = "done" /\ result[c] = Unit)

C10_ClosedStep ==
    \A c \in CallIds :
        (~engineAlive /\ Starts(c) /\ kind'[c] = "transition_configuration_exchanged")
            => /\ UNCHANGED <<engineAlive, mailbox, held, chans, tokens, chan2>>
               /\ \A d \in CallIds \ {c} :
                      UNCHANGED <<pc[d], kind[d], attrs[d], result[d]>>

\* C10: transition_configuration_exchanged has completed with () as soon as
\* it was called, mailbox open or closed; called with the mailbox closed it
\* changes nothing but the caller's own call.
C10_FireAndForget == []C10_AlwaysUnit /\ [][C10_ClosedStep]_vars

\* the call was made after a call whose send had already failed
C10_Witness ==
    \E c, d \in CallIds :
        /\ Done(c, "transition_configuration_exchanged")
        /\ result[c] = Unit
        /\ pc[d] # "idle" /\ kind[d] = "new_payload"
        /\ Slot(d).tx = "dropped:send_failed"
        /\ d < c

\* ------------------------------------------------------ event streams
IsPrefix(s, t) == Len(s) <= Len(t) /\ SubSeq(t, 1, Len(s)) = s
IsListener(c) == kind[c] = "event_listener" /\ pc[c] = "done"

\* C11: what a live subscriber's stream has yielded, followed by what its
\* channel still buffers, is exactly what the engine sent to it, in the order
\* of the sends: no event is lost, duplicated or reordered.
C11_EventsInSendOrder ==
    \A c \in CallIds :
        /\ IsPrefix(subs[c].seen, subs[c].sent)
        /\ subs[c].rx => subs[c].seen \o subs[c].q = subs[c].sent

\* a registered subscriber has observed every event of a full run of sends
C11_Witness ==
    \E c \in CallIds :
        /\ IsListener(c)
        /\ subs[c].rx
        /\ Len(subs[c].sent) = MaxEvents
        /\ subs[c].seen = subs[c].sent

\* The subscriber's lifecycle: Closed once the stream was dropped or the
\* engine removed the subscriber, Registered while the engine holds the
\* sending half, Unregistered before that
SubPhase(sub) ==
    CASE sub.tx = "unused" -> 0
      [] sub.tx # "unused" /\ (~sub.rx \/ sub.tx = "dropped:engine") -> 3
      [] sub.rx /\ sub.tx = "registered" -> 2
      [] OTHER -> 1

\* a send to the subscriber was attempted in this step
SendAttempt(c) == EventNo(subs'[c]) = EventNo(subs[c]) + 1

C12_Step ==
    \A c \in CallIds :
        /\ SubPhase(subs'[c]) >= SubPhase(subs[c])
        /\ (subs[c].tx # "unused" /\ ~subs[c].rx)
              => /\ ~subs'[c].rx
                 /\ subs'[c].sent = subs[c].sent
                 /\ subs'[c].q = <<>>
                 /\ SendAttempt(c)
                       => /\ subs'[c].failed = subs[c].failed + 1
                          /\ engineAlive /\ engineAlive'
                          /\ UNCHANGED <<mailbox, held, nextCall, chans, tokens,
                                         chan2, callerVars, wroteFor, sends, recvLog>>
                          /\ \A d \in CallIds \ {c} : subs'[d] = subs[d]

\* C12: after a subscriber dropped its stream every send of the engine to its
\* channel fails and delivers nothing; the failed send changes nothing but
\* the count of failures and leaves the engine running with its mailbox and
\* the replies it owes untouched; a subscriber's phase only moves forward
\* through Unregistered, Registered, Closed.
C12_DeadSubscriberIsHarmless == [][C12_Step]_vars

\* every send to a dropped stream has failed, and the engine is alive with a
\* message in its mailbox that it can take
C12_Witness ==
    \E c \in CallIds :
        /\ IsListener(c)
        /\ ~subs[c].rx
        /\ subs[c].tx = "registered"
        /\ subs[c].failed = MaxEvents
        /\ engineAlive
        /\ mailbox # <<>>

C13_SilentStream ==
    \A c \in CallIds :
        (kind[c] = "event_listener" /\ subs[c].tx = "dropped:send_failed")
            => /\ pc[c] = "done"
               /\ result[c] = StreamValue
               /\ subs[c].sent = <<>> /\ subs[c].q = <<>> /\ subs[c].seen = <<>>

C13_ClosedStep ==
    \A c \in CallIds :
        /\ (~engineAlive /\ Starts(c) /\ kind'[c] = "event_listener")
              => /\ subs'[c].tx = "dropped:send_failed"
                 /\ pc'[c] = "done"
                 /\ result'[c] = StreamValue
        /\ subs[c].tx = "dropped:send_failed" => subs'[c].tx = subs[c].tx

\* C13: event_listener called with the mailbox closed returns a stream like
\* any other call, its registration is dropped with the failed send for good,
\* and nothing is ever sent to, buffered in or yielded by that stream.
C13_ClosedMailboxStreamIsSilent == []C13_SilentStream /\ [][C13_ClosedStep]_vars

\* the stream of a failed registration has ended without a value, while a
\* subscriber registered earlier has observed events
C13_Witness ==
    \E c, d \in CallIds :
        /\ IsListener(c)
        /\ subs[c].tx = "dropped:send_failed"
        /\ StreamEnded(subs[c])
        /\ IsListener(d)
        /\ Len(subs[d].seen) > 0

\* ------------------------------------------------- sends and ordering
\* The messages of call c that were put into the mailbox: still queued, or
\* taken by the engine
MsgCount(c) ==
    Cardinality({i \in 1..Len(mailbox) : mailbox[i].id = c})
        + Cardinality({i \in 1..Len(recvLog) : recvLog[i] = c})

C14_OneSend ==
    /\ nextCall = 1 => (mailbox = <<>> /\ recvLog = <<>>)
    /\ \A c \in CallIds :
          /\ sends[c] = (IF pc[c] = "idle" THEN 0 ELSE 1)
          /\ MsgCount(c) <= sends[c]

C14_Step ==
    /\ \A c \in CallIds :
          Starts(c)
              => /\ sends'[c] = sends[c] + 1
                 /\ mailbox' = IF engineAlive
                               THEN Append(mailbox, mailbox'[Len(mailbox')])
                               ELSE mailbox
                 /\ MsgCount(c)' = (IF engineAlive THEN 1 ELSE 0)
    /\ (\A c \in CallIds : ~Starts(c))
          => /\ sends' = sends
             /\ Len(mailbox') <= Len(mailbox)

\* C14: every call of new_payload, fork_choice_updated,
\* transition_configuration_exchanged and event_listener invokes the mailbox's
\* send exactly once, in the step that starts it and never again, whatever
\* the send or the call results in; at most one message of a call is ever in
\* the one mailbox, and before the first call the mailbox is empty.
C14_ExactlyOneSendPerCall == []C14_OneSend /\ [][C14_Step]_vars

\* a forkchoice update went through both phases on its one message, and an
\* event_listener call whose send failed did not send again
C14_Witness ==
    \E c, d \in CallIds :
        /\ Done(c, "fork_choice_updated")
        /\ tokens[c].kind = "Pending"
        /\ result[c].tag = "Ok"
        /\ sends[c] = 1 /\ MsgCount(c) = 1
        /\ IsListener(d)
        /\ subs[d].tx = "dropped:send_failed"
        /\ sends[d] = 1 /\ MsgCount(d) = 0

MailboxIds == {mailbox[i].id : i \in 1..Len(mailbox)}

C15_InSendOrder ==
    /\ \A i, j \in 1..Len(recvLog) : i < j => recvLog[i] < recvLog[j]
    /\ \A i, j \in 1..Len(mailbox) : i < j => mailbox[i].id < mailbox[j].id
    /\ \A i \in 1..Len(recvLog) : \A c \in MailboxIds : recvLog[i] < c
    /\ \A c \in CallIds :
          (pc[c] = "done" /\ kind[c] \in {"new_payload", "fork_choice_updated"})
              => c \notin MailboxIds

C15_Step ==
    /\ Len(recvLog') > Len(recvLog)
          => /\ mailbox # <<>>
             /\ recvLog' = Append(recvLog, Head(mailbox).id)
             /\ mailbox' = Tail(mailbox)
    /\ \A c, d \in CallIds :
          (Starts(d) /\ pc[c] = "done"
                /\ kind[c] \in {"new_payload", "fork_choice_updated"})
              => /\ c < d
                 /\ c \notin {mailbox'[i].id : i \in 1..Len(mailbox')}

\* C15: calls being numbered in the order of their sends, the engine takes
\* messages in increasing order of call, what is queued is in that order and
\* later than all it took, and every take is of the oldest queued message;
\* the message of a call that returned is no longer queued when a later call
\* is started, so the engine took it before the later call's message.
C15_MailboxIsFifo == []C15_InSendOrder /\ [][C15_Step]_vars

\* two calls were pending together, made through clones of the handle, and
\* the engine took their messages in the order of the sends
C15_Witness ==
    /\ Pending(1) /\ Pending(2)
    /\ recvLog = <<1, 2>>

\* ------------------------------------------- independence of the calls
\* The engine no longer has call c's request: it is neither queued nor held
Disposed(c) ==
    /\ c \notin MailboxIds
    /\ \A m \in held : m.id # c

\* C16: a pending call can resume as soon as the engine has answered or
\* dropped its own request, and a call in phase 2 as soon as its own token's
\* channel was written or dropped, whatever the state of any other call.
C16_ResumesOnOwnReply ==
    \A c \in CallIds :
        /\ (pc[c] = "np_await" /\ Disposed(c)) => ENABLED NewPayloadResolve(c)
        /\ (pc[c] = "fcu_await1" /\ Disposed(c)) => ENABLED ForkChoiceUpdatedPhase1(c)
        /\ (pc[c] = "fcu_await2" /\ Resolved(Slot2(c)))
              => ENABLED ForkChoiceUpdatedPhase2(c)

\* a new_payload call started after a forkchoice update has returned the
\* engine's answer while the update still waits for its payload build
C16_Witness ==
    \E c, d \in CallIds :
        /\ c < d
        /\ pc[c] = "fcu_await2"
        /\ Slot2(c).tx = "alive"
        /\ Done(d, "new_payload")
        /\ Slot(d).tx = "sent"
        /\ result[d] = wroteFor[d]

OthersUntouched(c) ==
    \A d \in CallIds \ {c} :
        /\ chans'[d] = chans[d] /\ chan2'[d] = chan2[d] /\ tokens'[d] = tokens[d]
        /\ pc'[d] = pc[d] /\ result'[d] = result[d]

C17_Step ==
    \A c \in CallIds :
        /\ (Pending(c) /\ pc'[c] = "cancelled")
              => /\ UNCHANGED <<engineAlive, mailbox, held, recvLog, sends, subs>>
                 /\ OthersUntouched(c)
        /\ (pc[c] = "cancelled" /\ Slot(c).tx = "alive"
                /\ Slot(c)'.tx = "dropped:rx_gone")
              => /\ Slot(c)'.val = NoVal
                 /\ UNCHANGED <<engineAlive, mailbox, recvLog, sends, subs>>
                 /\ OthersUntouched(c)
        /\ (pc[c] = "cancelled" /\ Slot2(c).tx = "alive"
                /\ Slot2(c)'.tx = "dropped:rx_gone")
              => /\ Slot2(c)'.val = NoVal
                 /\ UNCHANGED <<engineAlive, mailbox, held, recvLog, sends, subs>>
                 /\ OthersUntouched(c)
        /\ pc[c] = "cancelled"
              => /\ pc'[c] = "cancelled"
                 /\ result'[c] = NoVal
                 /\ Slot(c)'.val = Slot(c).val

\* C17: the step in which a caller drops a pending call leaves the mailbox,
\* what the engine holds and every other call as they were: no message is
\* sent.  The engine's later reply on the dropped call's channel, or on the
\* channel of its token, fails and stores nothing, and leaves the mailbox and
\* every other call as they were;
\* a dropped call stays dropped, without a result.
C17_DropIsSilent == [][C17_Step]_vars

\* the engine's reply to a dropped call failed, and another call returned
\* the answer the engine wrote for it
C17_Witness ==
    \E c, d \in CallIds :
        /\ pc[c] = "cancelled"
        /\ Slot(c).tx = "dropped:rx_gone"
        /\ wroteFor[c] # NoVal
        /\ pc[d] = "done" /\ kind[d] \in {"new_payload", "fork_choice_updated"}
        /\ Slot(d).tx = "sent"

\* ------------------------------------------------------ single answer
\* The reply-expecting messages that exist: queued or held by the engine
LiveRequests ==
    {m \in held \cup {mailbox[i] : i \in 1..Len(mailbox)} : ExpectsReply(m)}

C18_OneSender ==
    /\ \A m, n \in LiveRequests : m.tx = n.tx => m = n
    /\ \A m \in LiveRequests : Slot(m.tx).tx = "alive"
    /\ \A c \in CallIds :
          /\ pc[c] = "idle" => (Slot(c) = UnusedChan /\ Slot2(c) = UnusedChan)
          /\ Slot(c).tx # "sent" => Slot(c).val = NoVal

C18_Step ==
    \A c \in CallIds :
        /\ Resolved(Slot(c))
              => (Slot(c)'.tx = Slot(c).tx /\ Slot(c)'.val = Slot(c).val)
        /\ Resolved(Slot2(c))
              => (Slot2(c)'.tx = Slot2(c).tx /\ Slot2(c)'.val = Slot2(c).val)
        /\ pc[c] = "done" => pc'[c] = "done"
        /\ result[c] # NoVal => result'[c] = result[c]

\* C18: a request's reply channel is unused before its call and is the
\* channel of no other request; its sender exists in one message only, and
\* only while the channel is neither written nor dropped, so a second reply
\* has nothing to be sent with; a channel that was written or dropped keeps
\* its state and its value, and a call that returned keeps its result.
C18_ExactlyOneAnswer == []C18_OneSender /\ [][C18_Step]_vars

\* two calls have each returned what was written to their own channel, and
\* no sender of either channel is left
C18_Witness ==
    /\ \A c \in CallIds :
          /\ pc[c] = "done" /\ kind[c] \in {"new_payload", "fork_choice_updated"}
          /\ Slot(c).tx = "sent"
          /\ result[c] # NoVal
    /\ LiveRequests = {}
    /\ wroteFor[1] # wroteFor[2]

\* --------------------------------------------------- error provenance
ClosedUnwritten(slot) ==
    slot.tx \in {"dropped:send_failed", "dropped:queued", "dropped:engine"}

IsEngineUnavailable(r) == r.tag = "Err" /\ r.a = "EngineUnavailable"

\* the error the engine wrote, after the conversion the call's `?` applies
Converted(c, e) == IF kind[c] = "new_payload" THEN e ELSE FromRethError(e)

\* C19: a new_payload or fork_choice_updated call that returned
\* EngineUnavailable had its phase-1 channel closed with nothing written to
\* it (the send failed, or the request was dropped while queued or by the
\* engine); a call whose channel the engine wrote an error E to returned E,
\* converted to the call's error type, and not EngineUnavailable; a failure of
\* phase 2 is not EngineUnavailable either.
C19_EngineUnavailableOnlyOnClosure ==
    \A c \in CallIds :
        (pc[c] = "done" /\ kind[c] \in {"new_payload", "fork_choice_updated"})
            => /\ IsEngineUnavailable(result[c])
                     => (ClosedUnwritten(Slot(c)) /\ wroteFor[c] = NoVal)
               /\ (Slot(c).tx = "sent" /\ Slot(c).val.tag = "Err")
                     => /\ result[c] = Converted(c, wroteFor[c])
                        /\ Slot(c).val = wroteFor[c]
                        /\ ~IsEngineUnavailable(result[c])
               /\ ClosedUnwritten(Slot(c)) => IsEngineUnavailable(result[c])

\* one call returned the engine's error, converted, and the other, whose
\* request the engine dropped, returned EngineUnavailable
C19_Witness ==
    \E c, d \in CallIds :
        /\ Done(c, "fork_choice_updated")
        /\ wroteFor[c] \in RethErrors
        /\ result[c] = FromRethError(wroteFor[c])
        /\ Done(d, "new_payload")
        /\ Slot(d).tx = "dropped:engine"
        /\ result[d] = NewPayloadEngineUnavailable

\* ------------------------------------------------- engine termination
EngineUnavailableOf(c) ==
    IF kind[c] = "new_payload" THEN NewPayloadEngineUnavailable
    ELSE ForkChoiceEngineUnavailable

C20_QueuedInv ==
    /\ ~engineAlive => mailbox = <<>>
    /\ \A c \in CallIds :
          Slot(c).tx = "dropped:queued"
              => /\ ~engineAlive
                 /\ wroteFor[c] = NoVal
                 /\ pc[c] \in {"np_await", "fcu_await1"} => ENABLED Resume(c)
                 /\ pc[c] = "done" => result[c] = EngineUnavailableOf(c)
                 /\ pc[c] # "fcu_await2"

C20_StopStep ==
    (engineAlive /\ ~engineAlive')
        => \A i \in 1..Len(mailbox) :
               ExpectsReply(mailbox[i])
                   => chans'[mailbox[i].tx].tx = "dropped:queued"

C20_Resolves ==
    \A c \in CallIds :
        (Slot(c).tx = "dropped:queued" /\ Pending(c)) ~> ~Pending(c)

\* C20: when the engine drops the mailbox's receiver, the sender inside every
\* queued reply-expecting message is dropped with it; each of those calls can
\* resume at once, does resume unless its caller drops it first, and then
\* returns the EngineUnavailable of its error type.
C20_QueuedCallersGetEngineUnavailable ==
    []C20_QueuedInv /\ [][C20_StopStep]_vars /\ C20_Resolves

\* the engine stopped with two requests queued, and both callers have
\* returned EngineUnavailable
C20_Witness ==
    \E c, d \in CallIds :
        /\ c # d
        /\ Done(c, "new_payload") /\ Done(d, "fork_choice_updated")
        /\ Slot(c).tx = "dropped:queued" /\ Slot(d).tx = "dropped:queued"
        /\ result[c] = NewPayloadEngineUnavailable
        /\ result[d] = ForkChoiceEngineUnavailable

=============================================================================
